---- MODULE Spec2Model ----
(***************************************************************************)
(* ThresholdStrategy of flip_7/simulation/strategies/threshold.py.         *)
(*                                                                         *)
(* The strategy object holds target_score and distance_from_200.  The game *)
(* engine builds a StrategyContext, calls one of the decision methods and  *)
(* takes the returned value.  Each method is an action; the value it       *)
(* returns is computed by an operator that follows the method's code.      *)
(***************************************************************************)
EXTENDS Integers, Sequences, FiniteSets, TLC

VARIABLES
    self,       \* the strategy object: [target_score, distance_from_200]
    ctor,       \* the arguments __init__ was called with
    pc,         \* engine position: "ready" to call, or a call has "returned"
    call,       \* the call in progress / last made: method and arguments
    result,     \* the value that call returned
    earlier     \* an earlier completed call and its result, kept by the engine

vars == <<self, ctor, pc, call, result, earlier>>

----------------------------------------------------------------------------
(* Bounds of the model and constants of the program *)

MaxOpponents == 2       \* longest context.opponents of a hit/stay decision
MaxTargetOpponents == 3 \* longest context.opponents of a target decision
MaxTargets == 2         \* longest possible_targets
MaxDuplicates == 2      \* longest duplicate_cards
HistMaxOpponents == 1   \* longest context.opponents in the call-history runs
HistMaxTargets == 1     \* longest possible_targets in the call-history runs

DefaultTargetScore == 100
DefaultDistance == 0
WinningScore == 200

----------------------------------------------------------------------------
(* Sequences *)

Range(s) == {s[i] : i \in 1..Len(s)}

SeqsUpTo(S, n) == UNION {[1..k -> S] : k \in 0..n}

Injective(s) == \A i, j \in 1..Len(s) : s[i] = s[j] => i = j

----------------------------------------------------------------------------
(* __init__ *)

NewStrategy(target_score, distance_from_200) ==
    [target_score |-> target_score, distance_from_200 |-> distance_from_200]

----------------------------------------------------------------------------
(* opponent_can_win: scan context.opponents in order, return at the first   *)
(* opponent that meets either condition, False after the loop.              *)

(* Variant: the proximity test looks at is_busted only *)
RECURSIVE opponent_can_win_from_unstayed(_, _, _)
opponent_can_win_from_unstayed(strategy, context, i) ==
    IF i > Len(context.opponents) THEN FALSE
    ELSE LET opponent == context.opponents[i] IN
         IF opponent.total_score >= WinningScore THEN TRUE
         ELSE IF (~opponent.is_busted)
                 /\ (opponent.total_score + opponent.round_score
                        >= (WinningScore - strategy.distance_from_200))
              THEN TRUE
              ELSE opponent_can_win_from_unstayed(strategy, context, i + 1)

RECURSIVE opponent_can_win_from(_, _, _)
opponent_can_win_from(strategy, context, i) ==
    IF i > Len(context.opponents) THEN FALSE
    ELSE LET opponent == context.opponents[i] IN
         IF opponent.total_score >= WinningScore THEN TRUE
         ELSE IF (~(opponent.has_stayed \/ opponent.is_busted))
                 /\ (opponent.total_score + opponent.round_score
                        >= (WinningScore - strategy.distance_from_200))
              THEN TRUE
              ELSE opponent_can_win_from(strategy, context, i + 1)

opponent_can_win(strategy, context) == opponent_can_win_from(strategy, context, 1)

----------------------------------------------------------------------------
(* decide_hit_or_stay *)

(* Variant: hit while the round score is at or below the target *)
decide_hit_or_stay_inclusive(strategy, context) ==
    IF context.my_flip_three_active /\ context.my_flip_three_count > 0
    THEN TRUE
    ELSE context.my_round_score <= strategy.target_score
            \/ opponent_can_win(strategy, context)

(* Variant: "and" in place of "or" in the return expression *)
decide_hit_or_stay_both(strategy, context) ==
    IF context.my_flip_three_active /\ context.my_flip_three_count > 0
    THEN TRUE
    ELSE context.my_round_score < strategy.target_score
            /\ opponent_can_win(strategy, context)

decide_hit_or_stay(strategy, context) ==
    IF context.my_flip_three_active /\ context.my_flip_three_count > 0
    THEN TRUE
    ELSE context.my_round_score < strategy.target_score
            \/ opponent_can_win(strategy, context)

----------------------------------------------------------------------------
(* decide_second_chance_discard: duplicate_cards[-1]; IndexError on []      *)

IndexError == "IndexError"

(* Variant: duplicate_cards[0] *)
decide_second_chance_discard_first(strategy, context, duplicate_value, duplicate_cards) ==
    IF Len(duplicate_cards) = 0 THEN IndexError
    ELSE duplicate_cards[1]

decide_second_chance_discard(strategy, context, duplicate_value, duplicate_cards) ==
    IF Len(duplicate_cards) = 0 THEN IndexError
    ELSE duplicate_cards[Len(duplicate_cards)]

----------------------------------------------------------------------------
(* Target selection.                                                        *)
(* opponent_ids: the list comprehension over context.opponents.             *)
(* opponent_scores: the dict comprehension; a dict keeps a key at the place *)
(* of its first insertion and holds the value written last.                 *)
(* max(keys, key=...): the first key, in dict order, with the largest key   *)
(* value (a later key replaces the best only when strictly larger).         *)

RECURSIVE opponent_ids_from(_, _, _)
opponent_ids_from(context, possible_targets, i) ==
    IF i > Len(context.opponents) THEN <<>>
    ELSE LET opp == context.opponents[i] IN
         (IF opp.player_id \in Range(possible_targets)
          THEN <<opp.player_id>> ELSE <<>>)
         \o opponent_ids_from(context, possible_targets, i + 1)

(* Variant: every opponent, whether in possible_targets or not *)
opponent_ids_unfiltered(context, possible_targets) ==
    [i \in 1..Len(context.opponents) |-> context.opponents[i].player_id]

opponent_ids(context, possible_targets) ==
    opponent_ids_from(context, possible_targets, 1)

EmptyDict == [keys |-> <<>>, val |-> <<>>]

DictSet(d, k, v) ==
    IF k \in Range(d.keys)
    THEN [keys |-> d.keys, val |-> [x \in DOMAIN d.val |-> IF x = k THEN v ELSE d.val[x]]]
    ELSE [keys |-> Append(d.keys, k), val |-> (k :> v) @@ d.val]

RECURSIVE opponent_scores_from(_, _, _, _)
opponent_scores_from(context, ids, i, d) ==
    IF i > Len(context.opponents) THEN d
    ELSE LET opp == context.opponents[i] IN
         opponent_scores_from(context, ids, i + 1,
            IF opp.player_id \in Range(ids)
            THEN DictSet(d, opp.player_id, opp.total_score)
            ELSE d)

(* Variant: the scores of every opponent, whether in ids or not *)
opponent_scores_unfiltered(context, ids) ==
    opponent_scores_from(context, opponent_ids_unfiltered(context, <<>>), 1, EmptyDict)

opponent_scores(context, ids) == opponent_scores_from(context, ids, 1, EmptyDict)

(* Variant: a later key replaces the best when at least as large *)
RECURSIVE max_from_last(_, _, _)
max_from_last(d, i, best) ==
    IF i > Len(d.keys) THEN best
    ELSE max_from_last(d, i + 1,
            IF d.val[d.keys[i]] >= d.val[best] THEN d.keys[i] ELSE best)

RECURSIVE max_from(_, _, _)
max_from(d, i, best) ==
    IF i > Len(d.keys) THEN best
    ELSE max_from(d, i + 1,
            IF d.val[d.keys[i]] > d.val[best] THEN d.keys[i] ELSE best)

max_by_score(d) == max_from(d, 2, d.keys[1])

decide_flip_three_target(strategy, context, possible_targets) ==
    LET ids == opponent_ids(context, possible_targets) IN
    IF Len(ids) = 0 THEN context.my_player_id
    ELSE max_by_score(opponent_scores(context, ids))

(* Variant: freeze self only above the target *)
decide_freeze_target_strict(strategy, context, possible_targets) ==
    IF context.my_round_score > strategy.target_score THEN context.my_player_id
    ELSE LET ids == opponent_ids(context, possible_targets) IN
         IF Len(ids) = 0 THEN context.my_player_id
         ELSE max_by_score(opponent_scores(context, ids))

decide_freeze_target(strategy, context, possible_targets) ==
    IF context.my_round_score >= strategy.target_score THEN context.my_player_id
    ELSE LET ids == opponent_ids(context, possible_targets) IN
         IF Len(ids) = 0 THEN context.my_player_id
         ELSE max_by_score(opponent_scores(context, ids))

----------------------------------------------------------------------------
(* The values the engine hands to the strategy *)

MyPlayerId == "p1"

OpponentIdSeq == <<"p2", "p3", "p4", "p5">>

TargetScores == {DefaultTargetScore, 50}

Distances == {DefaultDistance, 50}

MyRoundScores == {50, 100}

Context(round_score, active, count, opponents) ==
    [my_player_id |-> MyPlayerId,
     my_round_score |-> round_score,
     my_flip_three_active |-> active,
     my_flip_three_count |-> count,
     opponents |-> opponents]

OpponentInfo(player_id, total_score, round_score, has_stayed, is_busted) ==
    [player_id |-> player_id,
     total_score |-> total_score,
     round_score |-> round_score,
     has_stayed |-> has_stayed,
     is_busted |-> is_busted]

(* Opponents as the hit/stay decision sees them: every combination of total *)
(* score, round score and stayed / busted (a player is never both); the     *)
(* opponent at position i of the list is player OpponentIdSeq[i].           *)
ThreatStates ==
    {st \in [total_score : {100, 150, WinningScore},
             round_score : {0, 50},
             has_stayed : BOOLEAN,
             is_busted : BOOLEAN] : ~(st.has_stayed /\ st.is_busted)}

ThreatOpponents(n) ==
    {[i \in 1..Len(sts) |->
        OpponentInfo(OpponentIdSeq[i], sts[i].total_score, sts[i].round_score,
                     sts[i].has_stayed, sts[i].is_busted)] : sts \in SeqsUpTo(ThreatStates, n)}

ThreatContexts ==
    {Context(rs, fl[1], fl[2], opps) :
        rs \in MyRoundScores,
        fl \in {<<FALSE, 0>>, <<FALSE, 1>>, <<TRUE, 0>>, <<TRUE, 1>>},
        opps \in ThreatOpponents(MaxOpponents)}

ScanContexts ==
    {Context(0, FALSE, 0, opps) : opps \in ThreatOpponents(MaxOpponents)}

(* Opponents as the target decisions see them: any player id (repeats       *)
(* included) with any total score, still playing.                           *)
TargetOpponentInfos ==
    {OpponentInfo(id, total, 0, FALSE, FALSE) :
        id \in {"p2", "p3", "p4"}, total \in {150, WinningScore}}

TargetContexts ==
    {Context(rs, FALSE, 0, opps) :
        rs \in MyRoundScores, opps \in SeqsUpTo(TargetOpponentInfos, MaxTargetOpponents)}

PossibleTargets == SeqsUpTo({"p1", "p2", "p3", "p4"}, MaxTargets)

(* Cards: a NumberCard has a value; copy tells apart the cards of one value *)
DuplicateValues == {7, 12}

NumberCard(value, copy) == [value |-> value, copy |-> copy]

DuplicateCards(value) ==
    {cards \in SeqsUpTo({NumberCard(value, c) : c \in 1..(MaxDuplicates + 1)}, MaxDuplicates) :
        Injective(cards)}

DuplicateCardsOf == [value \in DuplicateValues |-> DuplicateCards(value)]

DiscardContexts ==
    {Context(rs, FALSE, 0, <<>>) : rs \in MyRoundScores}

(* The call-history runs use few values of each argument *)
HistOpponentInfos ==
    {OpponentInfo("p2", 150, 50, FALSE, FALSE), OpponentInfo("p3", WinningScore, 0, TRUE, FALSE)}

HistContexts ==
    {Context(rs, fl[1], fl[2], opps) :
        rs \in {50, 100},
        fl \in {<<FALSE, 0>>, <<TRUE, 1>>},
        opps \in SeqsUpTo(HistOpponentInfos, HistMaxOpponents)}

HistPossibleTargets == SeqsUpTo({"p1", "p2"}, HistMaxTargets)

HistDiscardContexts == {Context(100, FALSE, 0, <<>>)}

----------------------------------------------------------------------------
(* Calls *)

NoContext == Context(0, FALSE, 0, <<>>)

NoResult == "none"

Call(op, context, possible_targets, duplicate_value, duplicate_cards) ==
    [op |-> op,
     context |-> context,
     possible_targets |-> possible_targets,
     duplicate_value |-> duplicate_value,
     duplicate_cards |-> duplicate_cards]

NoCall == Call("none", NoContext, <<>>, 0, <<>>)

Init ==
    /\ \E target_score \in TargetScores, distance_from_200 \in Distances :
          /\ self = NewStrategy(target_score, distance_from_200)
          /\ ctor = [target_score |-> target_score, distance_from_200 |-> distance_from_200]
    /\ pc = "ready"
    /\ call = NoCall
    /\ result = NoResult
    /\ earlier = [call |-> NoCall, result |-> NoResult]

(* Each method is called with arguments the engine chooses; Contexts,       *)
(* Targets, Values and CardsOf[value] are the sets the choice is made from.  *)

(* Variant: the call moves target_score to the round score it was shown *)
DecideHitOrStayAdapting(Contexts) ==
    /\ pc = "ready"
    /\ \E context \in Contexts :
          /\ call' = Call("decide_hit_or_stay", context, <<>>, 0, <<>>)
          /\ result' = decide_hit_or_stay(self, context)
          /\ self' = [self EXCEPT !.target_score = context.my_round_score]
    /\ pc' = "returned"
    /\ UNCHANGED <<ctor, earlier>>

DecideHitOrStay(Contexts) ==
    /\ pc = "ready"
    /\ \E context \in Contexts :
          /\ call' = Call("decide_hit_or_stay", context, <<>>, 0, <<>>)
          /\ result' = decide_hit_or_stay(self, context)
    /\ pc' = "returned"
    /\ UNCHANGED <<self, ctor, earlier>>

DecideSecondChanceDiscard(Contexts, Values, CardsOf) ==
    /\ pc = "ready"
    /\ \E context \in Contexts, duplicate_value \in Values :
          \E duplicate_cards \in CardsOf[duplicate_value] :
             /\ call' = Call("decide_second_chance_discard", context, <<>>,
                             duplicate_value, duplicate_cards)
             /\ result' = decide_second_chance_discard(self, context, duplicate_value,
                                                       duplicate_cards)
    /\ pc' = "returned"
    /\ UNCHANGED <<self, ctor, earlier>>

DecideFlipThreeTarget(Contexts, Targets) ==
    /\ pc = "ready"
    /\ \E context \in Contexts, possible_targets \in Targets :
          /\ call' = Call("decide_flip_three_target", context, possible_targets, 0, <<>>)
          /\ result' = decide_flip_three_target(self, context, possible_targets)
    /\ pc' = "returned"
    /\ UNCHANGED <<self, ctor, earlier>>

DecideFreezeTarget(Contexts, Targets) ==
    /\ pc = "ready"
    /\ \E context \in Contexts, possible_targets \in Targets :
          /\ call' = Call("decide_freeze_target", context, possible_targets, 0, <<>>)
          /\ result' = decide_freeze_target(self, context, possible_targets)
    /\ pc' = "returned"
    /\ UNCHANGED <<self, ctor, earlier>>

OpponentCanWin(Contexts) ==
    /\ pc = "ready"
    /\ \E context \in Contexts :
          /\ call' = Call("opponent_can_win", context, <<>>, 0, <<>>)
          /\ result' = opponent_can_win(self, context)
    /\ pc' = "returned"
    /\ UNCHANGED <<self, ctor, earlier>>

(* The engine takes the returned value and goes on to its next decision *)
Return ==
    /\ pc = "returned"
    /\ pc' = "ready"
    /\ call' = NoCall
    /\ result' = NoResult
    /\ UNCHANGED <<self, ctor, earlier>>

(* The same, keeping the call and its result for a later comparison *)
ReturnAndRecord ==
    /\ pc = "returned"
    /\ pc' = "ready"
    /\ earlier' = [call |-> call, result |-> result]
    /\ call' = NoCall
    /\ result' = NoResult
    /\ UNCHANGED <<self, ctor>>

Next ==
    \/ DecideHitOrStay(ThreatContexts)
    \/ DecideSecondChanceDiscard(DiscardContexts, DuplicateValues, DuplicateCardsOf)
    \/ DecideFlipThreeTarget(TargetContexts, PossibleTargets)
    \/ DecideFreezeTarget(TargetContexts, PossibleTargets)
    \/ OpponentCanWin(ScanContexts)
    \/ Return

Spec == Init /\ [][Next]_vars

NextHistory ==
    \/ DecideHitOrStay(HistContexts)
    \/ DecideSecondChanceDiscard(HistDiscardContexts, DuplicateValues, DuplicateCardsOf)
    \/ DecideFlipThreeTarget(HistContexts, HistPossibleTargets)
    \/ DecideFreezeTarget(HistContexts, HistPossibleTargets)
    \/ OpponentCanWin(HistContexts)
    \/ Return
    \/ ReturnAndRecord

SpecHistory == Init /\ [][NextHistory]_vars

----------------------------------------------------------------------------
(* Properties *)

Returned(op) == pc = "returned" /\ call.op = op

ForcedDraw(context) ==
    context.my_flip_three_active /\ context.my_flip_three_count > 0

Active(opp) == ~opp.has_stayed /\ ~opp.is_busted

(* positions in context.opponents of the opponents named in possible_targets *)
Eligible(context, possible_targets) ==
    {i \in 1..Len(context.opponents) :
        context.opponents[i].player_id \in Range(possible_targets)}

DistinctIds(context) ==
    \A i, j \in 1..Len(context.opponents) :
        context.opponents[i].player_id = context.opponents[j].player_id => i = j

C3_HighestEligibleFirstOnTie ==
    LET context == call.context
        elig == Eligible(context, call.possible_targets)
    IN  (/\ \/ Returned("decide_flip_three_target")
            \/ Returned("decide_freeze_target")
                /\ context.my_round_score < self.target_score
         /\ DistinctIds(context)
         /\ elig # {})
        => \E i \in elig :
              /\ result = context.opponents[i].player_id
              /\ \A j \in elig :
                    /\ context.opponents[j].total_score <= context.opponents[i].total_score
                    /\ j < i => context.opponents[j].total_score
                                    < context.opponents[i].total_score

(* the leader is not eligible and the two eligible opponents tie: the first  *)
(* of the two is returned                                                    *)
C3_Witness ==
    /\ Returned("decide_flip_three_target")
    /\ Len(call.context.opponents) = 3
    /\ DistinctIds(call.context)
    /\ Eligible(call.context, call.possible_targets) = {2, 3}
    /\ call.context.opponents[1].total_score > call.context.opponents[2].total_score
    /\ call.context.opponents[2].total_score = call.context.opponents[3].total_score
    /\ result = call.context.opponents[2].player_id

(* C4 as stated: the identifier decide_flip_three_target returns is an       *)
(* element of possible_targets.                                              *)
C4_ResultInPossibleTargets ==
    Returned("decide_flip_three_target") => result \in Range(call.possible_targets)

(* C4 as amended: the identifier decide_flip_three_target returns is an      *)
(* element of possible_targets when some opponent's player_id is in          *)
(* possible_targets, and context.my_player_id otherwise.                     *)
C4_ResultInPossibleTargetsOrSelf ==
    Returned("decide_flip_three_target") =>
        IF Eligible(call.context, call.possible_targets) # {}
        THEN result \in Range(call.possible_targets)
        ELSE result = call.context.my_player_id

(* an opponent outside possible_targets leads; the result is in the list     *)
C4_Witness ==
    /\ Returned("decide_flip_three_target")
    /\ Len(call.context.opponents) >= 2
    /\ \E i \in 1..Len(call.context.opponents) :
          /\ i \notin Eligible(call.context, call.possible_targets)
          /\ \A j \in Eligible(call.context, call.possible_targets) :
                call.context.opponents[j].total_score < call.context.opponents[i].total_score
    /\ call.context.my_player_id \notin Range(call.possible_targets)
    /\ result \in Range(call.possible_targets)

(* C5: with my_round_score >= target_score (equality included)               *)
(* decide_freeze_target returns context.my_player_id, whatever the           *)
(* opponents and possible_targets.                                           *)
C5_FreezeSelfAtTarget ==
    (Returned("decide_freeze_target") /\ call.context.my_round_score >= self.target_score)
        => result = call.context.my_player_id

(* round score equal to the target, an eligible opponent at 200, self not    *)
(* even in possible_targets                                                  *)
C5_Witness ==
    /\ Returned("decide_freeze_target")
    /\ call.context.my_round_score = self.target_score
    /\ \E i \in Eligible(call.context, call.possible_targets) :
          call.context.opponents[i].total_score >= 200
    /\ call.context.my_player_id \notin Range(call.possible_targets)
    /\ result = call.context.my_player_id

(* C6: when no element of possible_targets is the player_id of an opponent,  *)
(* decide_flip_three_target and decide_freeze_target return                  *)
(* context.my_player_id.                                                     *)
C6_SelfWhenNoEligibleOpponent ==
    (/\ Returned("decide_flip_three_target") \/ Returned("decide_freeze_target")
     /\ Eligible(call.context, call.possible_targets) = {})
        => result = call.context.my_player_id

(* round score below target, opponents and possible_targets both non-empty   *)
(* but disjoint                                                              *)
C6_Witness ==
    /\ Returned("decide_freeze_target")
    /\ call.context.my_round_score < self.target_score
    /\ Len(call.context.opponents) > 0
    /\ Len(call.possible_targets) > 0
    /\ call.context.my_player_id \notin Range(call.possible_targets)
    /\ Eligible(call.context, call.possible_targets) = {}
    /\ result = call.context.my_player_id

(* C7: after any sequence of calls target_score and distance_from_200 are    *)
(* the values given at construction, and a call with the same method,        *)
(* context and arguments as an earlier call returns what that call returned. *)
C7_ConfigFixedAndCallsRepeatable ==
    /\ self.target_score = ctor.target_score
    /\ self.distance_from_200 = ctor.distance_from_200
    /\ (pc = "returned" /\ earlier.call = call) => result = earlier.result

(* a decide_hit_or_stay call repeated after the engine has taken the result  *)
C7_Witness ==
    /\ Returned("decide_hit_or_stay")
    /\ earlier.call = call
    /\ result = earlier.result
    /\ result = FALSE

(* C8: for non-empty duplicate_cards decide_second_chance_discard returns    *)
(* the last element, and for two or more cards not the first one.            *)
C8_DiscardLast ==
    (Returned("decide_second_chance_discard") /\ Len(call.duplicate_cards) >= 1)
        => /\ result = call.duplicate_cards[Len(call.duplicate_cards)]
           /\ Len(call.duplicate_cards) >= 2 => result # call.duplicate_cards[1]

C8_Witness ==
    /\ Returned("decide_second_chance_discard")
    /\ Len(call.duplicate_cards) = 2
    /\ result = call.duplicate_cards[2]
    /\ result.value = call.duplicate_value

(* C9: with distance_from_200 = 0 opponent_can_win returns true only if some *)
(* opponent has total_score >= 200, and decide_hit_or_stay decides as if the *)
(* proximity rule did not exist.                                             *)
C9_NoProximityEffectAtDistanceZero ==
    LET reached200 == \E i \in 1..Len(call.context.opponents) :
                         call.context.opponents[i].total_score >= 200
    IN  /\ (Returned("opponent_can_win") /\ self.distance_from_200 = 0)
            => (result => reached200)
        /\ (Returned("decide_hit_or_stay") /\ self.distance_from_200 = 0)
            => (result <=> (\/ ForcedDraw(call.context)
                            \/ call.context.my_round_score < self.target_score
                            \/ reached200))

(* C10: when decide_hit_or_stay returns false, decide_freeze_target returns  *)
(* context.my_player_id for every possible_targets; when                     *)
(* decide_freeze_target returns another id, decide_hit_or_stay returns true. *)
C10_StayImpliesFreezeSelf ==
    /\ (Returned("decide_hit_or_stay") /\ result = FALSE)
        => \A possible_targets \in PossibleTargets :
              decide_freeze_target(self, call.context, possible_targets)
                  = call.context.my_player_id
    /\ (Returned("decide_freeze_target") /\ result # call.context.my_player_id)
        => decide_hit_or_stay(self, call.context) = TRUE

(* a stay with opponents that possible_targets can name *)
C10_Witness ==
    /\ Returned("decide_hit_or_stay")
    /\ result = FALSE
    /\ Len(call.context.opponents) = 2
    /\ call.context.my_round_score = self.target_score

====
